---- MODULE Spec2Model ----
(***************************************************************************)
(* The authenticated express app: the User model (models/user.js), the     *)
(* authentications controller (controllers/authentications.js), the users  *)
(* controller (controllers/users.js) and the router with its secureRoute   *)
(* middleware (config/routes.js), over a MongoDB collection of users.      *)
(*                                                                         *)
(* Every handler makes exactly one call to the collection.  What a handler *)
(* does before that call (secureRoute, building and validating a document) *)
(* touches nothing shared, so a request is one step, taken at the moment   *)
(* of its collection call.  User.create is the exception that is kept in   *)
(* two steps (validate, then insert): two creations that both passed       *)
(* validation race for the unique indexes.                                 *)
(*                                                                         *)
(* Strings of the program are strings here; a field a request leaves out   *)
(* reads as Undefined.  Request values are strings, as form-encoded bodies *)
(* give them.                                                              *)
(***************************************************************************)
EXTENDS Naturals, Sequences, FiniteSets, TLC

VARIABLES
  users,      \* the users collection: a set of stored documents
  hashFrom,   \* history: for each stored _id, how its passwordHash was last written
  nextId,     \* the next fresh _id
  clock,      \* wall-clock time in seconds (Date.now() / 1000)
  ticks,      \* number of clock advances so far
  pending,    \* per slot: a User.create between validation and insert
  held,       \* the token the client keeps from an earlier response
  resp        \* the exchange just completed, until the client has read it

vars == <<users, hashFrom, nextId, clock, ticks, pending, held, resp>>

-----------------------------------------------------------------------------
(* Bounds of the exploration *)

MaxDocs == 2
MaxTicks == 2
NumSlots == 2

-----------------------------------------------------------------------------
(* Program constants *)

\* jwt.sign(..., { expiresIn: 60*60*24 })
ExpiresIn == 86400

Secret == "Shh it's a secret"

Undefined == "<undefined>"

-----------------------------------------------------------------------------
(* Input values *)

Usernames == {"u1", "u2"}
Emails == {"e1", "e2"}
Passwords == {"p1", "p2"}
Methods == {"GET", "POST", "PUT", "PATCH", "DELETE"}
Slots == 1..NumSlots
Ids == 1..(MaxDocs + 1)
Deltas == {1, ExpiresIn - 1, ExpiresIn}

-----------------------------------------------------------------------------
(* bcrypt *)

\* bcrypt.hashSync(password, bcrypt.genSaltSync(8)): the digest string
hashSync(password) == "$2a$08$" \o password

\* bcrypt.compareSync(password, hash), for a string password
compareSync(password, hash) == hash = "$2a$08$" \o password

\* passwordHash values a request may carry.  The second is a well-formed
\* digest (of "p2") that the sender computed itself.
HashInputs == {"not-a-digest", "$2a$08$p2"}

-----------------------------------------------------------------------------
(* Request bodies: the keys in the order the request gives them *)

Field(k, v) == IF v = Undefined THEN <<>> ELSE << <<k, v>> >>

MkBody(u, e, p, c, h, hashLast) ==
  Field("username", u) \o Field("email", e)
    \o (IF hashLast THEN <<>> ELSE Field("passwordHash", h))
    \o Field("password", p) \o Field("passwordConfirmation", c)
    \o (IF hashLast THEN Field("passwordHash", h) ELSE <<>>)

HasKey(body, k) == \E i \in 1..Len(body) : body[i][1] = k

\* req.body[k]; a key given twice reads as its last value
Get(body, k) ==
  IF HasKey(body, k)
  THEN body[CHOOSE i \in 1..Len(body) :
              /\ body[i][1] = k
              /\ \A j \in (i+1)..Len(body) : body[j][1] # k][2]
  ELSE Undefined

\* JavaScript's !x for a string or undefined
Falsy(x) == x = Undefined \/ x = ""

-----------------------------------------------------------------------------
(* models/user.js *)

\* A document under construction.  _password and _passwordConfirmation are
\* the transient values of the virtuals; hashSet records which setter wrote
\* passwordHash last (history, not program state).
NewDoc(id) ==
  [_id |-> id, username |-> Undefined, email |-> Undefined,
   passwordHash |-> Undefined, __v |-> 0,
   _password |-> Undefined, _passwordConfirmation |-> Undefined,
   hashSet |-> "never"]

\* doc.set(k, v): a schema path is assigned, a virtual runs its setter, any
\* other key is dropped (strict schema)
SetPath(doc, k, v) ==
  CASE k = "password" ->
         [doc EXCEPT !._password = v, !.passwordHash = hashSync(v),
                     !.hashSet = "virtual"]
    [] k = "passwordConfirmation" -> [doc EXCEPT !._passwordConfirmation = v]
    [] k = "username" -> [doc EXCEPT !.username = v]
    [] k = "email" -> [doc EXCEPT !.email = v]
    [] k = "passwordHash" -> [doc EXCEPT !.passwordHash = v, !.hashSet = "body"]
    [] OTHER -> doc

RECURSIVE SetAll(_, _)
\* new User(body): the keys of the body are set in their order
SetAll(doc, body) ==
  IF body = <<>> THEN doc
  ELSE SetAll(SetPath(doc, Head(body)[1], Head(body)[2]), Tail(body))

\* required: true
RequiredErrors(doc) ==
  {k \in {"username", "email", "passwordHash"} : Falsy(doc[k])}

\* The validator without its comparison with the confirmation
MutPasswordErrors(doc, isNew) ==
  IF isNew
  THEN IF Falsy(doc._password) THEN {"password"} ELSE {}
  ELSE {}

\* userSchema.path('passwordHash').validate(...): the paths it invalidates
PasswordErrors(doc, isNew) ==
  IF isNew
  THEN IF Falsy(doc._password) THEN {"password"}
       ELSE IF doc._password # doc._passwordConfirmation
            THEN {"passwordConfirmation"}
            ELSE {}
  ELSE {}

\* doc.validate() of a new document: the invalid paths
Validate(doc) == RequiredErrors(doc) \cup PasswordErrors(doc, TRUE)

\* What is written to the collection: the schema's paths, _id and __v
Stored(doc) ==
  [_id |-> doc._id, username |-> doc.username, email |-> doc.email,
   passwordHash |-> doc.passwordHash, __v |-> doc.__v]

\* History of a stored passwordHash: which setter wrote it, and the raw
\* password and confirmation that were supplied with it
Origin(doc) ==
  [how |-> doc.hashSet, password |-> doc._password,
   confirmation |-> doc._passwordConfirmation]

\* Serialization with no transform
MutToJSON(stored) == stored

\* userSchema.set('toJSON', { transform }): delete json.passwordHash, json.__v
toJSON(stored) ==
  [k \in (DOMAIN stored) \ {"passwordHash", "__v"} |-> stored[k]]

\* userSchema.methods.validatePassword
validatePassword(stored, password) == compareSync(password, stored.passwordHash)

\* A unique index on username alone
MutDuplicateKey(d, coll) ==
  \E o \in coll : o._id # d._id /\ o.username = d.username

\* The unique indexes on username and email: would writing d (under its
\* _id) leave two documents with one username or one email?
DuplicateKey(d, coll) ==
  \E o \in coll : o._id # d._id /\ (o.username = d.username \/ o.email = d.email)

-----------------------------------------------------------------------------
(* jsonwebtoken *)

\* The signature: a keyed digest of everything the token carries
Sign(key, id, username, iat, exp) ==
  [key |-> key, _id |-> id, username |-> username, iat |-> iat, exp |-> exp]

\* A payload that leaves the username out
MutJwtSign(id, username, key, now) ==
  [_id |-> id, username |-> Undefined, iat |-> now, exp |-> now + ExpiresIn,
   sig |-> Sign(key, id, Undefined, now, now + ExpiresIn)]

\* jwt.sign({_id, username}, secret, { expiresIn }) at time now
jwtSign(id, username, key, now) ==
  [_id |-> id, username |-> username, iat |-> now, exp |-> now + ExpiresIn,
   sig |-> Sign(key, id, username, now, now + ExpiresIn)]

NoToken == [_id |-> 0, username |-> "", iat |-> 0, exp |-> 0,
            sig |-> Sign("", 0, "", 0, 0)]

\* A token string is an optional leading text and the token proper.

\* Verification that still accepts at the second of expiry
MutJwtVerify(str, key, now) ==
  /\ str.prefix = ""
  /\ str.cred.sig = Sign(key, str.cred._id, str.cred.username,
                         str.cred.iat, str.cred.exp)
  /\ now <= str.cred.exp

\* jwt.verify(token, secret, cb): TRUE when cb gets no error.  A string that
\* is not a token, a signature that is not the key's, or now >= exp fail.
jwtVerify(str, key, now) ==
  /\ str.prefix = ""
  /\ str.cred.sig = Sign(key, str.cred._id, str.cred.username,
                         str.cred.iat, str.cred.exp)
  /\ now < str.cred.exp

-----------------------------------------------------------------------------
(* config/routes.js *)

NoHeader == [present |-> FALSE, prefix |-> "", cred |-> NoToken]

\* header.replace('Bearer ', '')
StripBearer(hdr) ==
  [prefix |-> IF hdr.prefix = "Bearer " THEN "" ELSE hdr.prefix,
   cred |-> hdr.cred]

\* The middleware without its check for a missing header
MutSecureRoute(hdr, now) ==
  IF ~hdr.present THEN TRUE
  ELSE jwtVerify(StripBearer(hdr), Secret, now)

\* secureRoute: TRUE when it calls next()
secureRoute(hdr, now) ==
  IF ~hdr.present THEN FALSE
  ELSE jwtVerify(StripBearer(hdr), Secret, now)

\* router.route(...): the handler bound to a method and a path
Route(method, path) ==
  CASE path = "/users" /\ method = "GET" -> "usersIndex"
    [] path = "/users" /\ method = "POST" -> "usersCreate"
    [] path = "/users/:id" /\ method = "GET" -> "usersShow"
    [] path = "/users/:id" /\ method \in {"PUT", "PATCH"} -> "usersUpdate"
    [] path = "/users/:id" /\ method = "DELETE" -> "usersDelete"
    [] path = "/register" /\ method = "POST" -> "register"
    [] path = "/login" /\ method = "POST" -> "login"
    [] OTHER -> "none"

\* .all(secureRoute)
Secured(path) == path \in {"/users", "/users/:id"}

-----------------------------------------------------------------------------
(* Responses *)

\* The body of a response, by the call that sends it:
\*   res.json({ message })          "message"
\*   res.json({ message, token })   "token"
\*   res.json(user)                 "doc"   (docs holds toJSON(user))
\*   res.json(users)                "docs"
\*   res.json(null)                 "null"  (no user was found to update)
\*   res.json(err)                  "error" (errors: the invalid paths)
\*   res.send(500), the 404 page    "text"
\*   res.send()                     "empty"
Json(type, message, token, docs, errors) ==
  [type |-> type, message |-> message, token |-> token, docs |-> docs,
   errors |-> errors]

JMessage(m) == Json("message", m, NoToken, {}, {})
JToken(t) == Json("token", "Success", t, {}, {})
JDoc(d) == Json("doc", "", NoToken, {toJSON(d)}, {})
JDocs(coll) == Json("docs", "", NoToken, {toJSON(d) : d \in coll}, {})
JNull == Json("null", "", NoToken, {}, {})
JError(name, paths) == Json("error", name, NoToken, {}, paths)
JText(t) == Json("text", t, NoToken, {}, {})
JEmpty == Json("empty", "", NoToken, {}, {})

Send(status, body) == [status |-> status, body |-> body]

\* A completed exchange: the request, what the handler sent (every send it
\* made, in order; the client receives the first), whether an exception left
\* the handler, whether the request got past secureRoute (passed) and into
\* a handler (ran), the time it was received (at) and answered (sentAt),
\* and the collection as its call to the collection found it (before).
\* id is the :id of the path or, once a creation reached its insert, the
\* _id of the document it built.
Exchange(handler, method, path, hdr, id, body, dbErr, passed, ran, sends, thrown) ==
  [handler |-> handler, method |-> method, path |-> path, hdr |-> hdr,
   id |-> id, body |-> body, dbErr |-> dbErr, passed |-> passed, ran |-> ran,
   sends |-> sends, thrown |-> thrown, before |-> users, at |-> clock,
   sentAt |-> clock]

NoResp ==
  [handler |-> "idle", method |-> "", path |-> "", hdr |-> NoHeader,
   id |-> 0, body |-> <<>>, dbErr |-> FALSE, passed |-> FALSE, ran |-> FALSE,
   sends |-> <<>>, thrown |-> FALSE, before |-> {}, at |-> 0, sentAt |-> 0]

NoPending == [handler |-> "idle", method |-> "", path |-> "", hdr |-> NoHeader,
              body |-> <<>>, doc |-> NewDoc(0), at |-> 0]

NoOrigin == [how |-> "never", password |-> Undefined, confirmation |-> Undefined]

\* secureRoute's rejection: res.status(401).json({ message: "Unauthorized" })
Unauthorized(method, path, hdr, id, body) ==
  Exchange(Route(method, path), method, path, hdr, id, body, FALSE, FALSE, FALSE,
           <<Send(401, JMessage("Unauthorized"))>>, FALSE)

\* The request reaches its handler: the route is open, or secureRoute
\* called next()
Reaches(path, hdr) == Secured(path) => secureRoute(hdr, clock)

Init ==
  /\ users = {}
  /\ hashFrom = [i \in Ids |-> NoOrigin]
  /\ nextId = 1
  /\ clock = 0
  /\ ticks = 0
  /\ pending = [s \in Slots |-> NoPending]
  /\ held = NoToken
  /\ resp = NoResp

-----------------------------------------------------------------------------
(* The environment: time, and the client *)

\* The Authorization headers a client can send: none, the token it holds
\* (as "Bearer <token>", bare, or under another scheme), that token with its
\* expiry or its _id altered, and a token signed with a key of its own
Forged(t) ==
  [_id |-> 1, username |-> "u1", iat |-> t, exp |-> t + ExpiresIn,
   sig |-> Sign("guess", 1, "u1", t, t + ExpiresIn)]

PlainHeaders ==
  {NoHeader} \cup (IF held = NoToken THEN {}
                   ELSE {[present |-> TRUE, prefix |-> "Bearer ", cred |-> held]})

AllHeaders ==
  PlainHeaders
    \cup {[present |-> TRUE, prefix |-> "Bearer ", cred |-> Forged(clock)]}
    \cup (IF held = NoToken THEN {}
          ELSE {[present |-> TRUE, prefix |-> p, cred |-> held] : p \in {"", "Basic "}}
               \cup {[present |-> TRUE, prefix |-> "Bearer ", cred |-> c] :
                       c \in {[held EXCEPT !.exp = @ + ExpiresIn],
                              [held EXCEPT !._id = @ + 1]}})

\* What an exploration lets happen: in.headers is "plain" or "all", in.slots
\* the creations that may be in flight together, in.failing the handlers
\* whose call to the collection may fail
HeadersOf(in) == IF in.headers = "all" THEN AllHeaders ELSE PlainHeaders

DbErrs(in, handler) == IF handler \in in.failing THEN BOOLEAN ELSE {FALSE}

Tick(in) ==
  /\ resp = NoResp
  /\ ticks < MaxTicks
  /\ \E d \in in.deltas : clock' = clock + d
  /\ ticks' = ticks + 1
  /\ UNCHANGED <<users, hashFrom, nextId, pending, held, resp>>

\* The client reads the response, and may keep the token it carries
Collect ==
  /\ resp # NoResp
  /\ resp' = NoResp
  /\ \/ held' = held
     \/ /\ resp.sends # <<>>
        /\ resp.sends[1].body.type = "token"
        /\ held' = resp.sends[1].body.token
  /\ UNCHANGED <<users, hashFrom, nextId, clock, ticks, pending>>

-----------------------------------------------------------------------------
(* User.create(req.body, cb): register and usersCreate *)

Busy(s) == pending[s].handler # "idle"

\* Validation, up to the insert.  A document that passes waits in a free slot.
StartCreate(in, method, path, hdr, body) ==
  LET doc == SetAll(NewDoc(nextId), body)
      errs == Validate(doc)
      free == {s \in in.slots : ~Busy(s)}
  IN  IF ~Reaches(path, hdr)
      THEN /\ resp' = Unauthorized(method, path, hdr, 0, body)
           /\ UNCHANGED <<pending, nextId>>
      ELSE IF errs # {}
      THEN /\ resp' = Exchange(Route(method, path), method, path, hdr, 0, body,
                               FALSE, TRUE, TRUE,
                               <<Send(400, JError("ValidationError", errs))>>, FALSE)
           /\ UNCHANGED <<pending, nextId>>
      ELSE /\ nextId <= MaxDocs
           /\ free # {}
           /\ pending' = [pending EXCEPT ![CHOOSE s \in free : \A t \in free : s <= t] =
                            [handler |-> Route(method, path), method |-> method,
                             path |-> path, hdr |-> hdr, body |-> body, doc |-> doc,
                             at |-> clock]]
           /\ nextId' = nextId + 1
           /\ UNCHANGED resp

\* POST /register
Register(in) ==
  /\ resp = NoResp
  /\ \E m \in Methods :
       /\ Route(m, "/register") = "register"
       /\ \E b \in in.createBodies : StartCreate(in, m, "/register", NoHeader, b)
  /\ UNCHANGED <<users, hashFrom, clock, ticks, held>>

\* POST /users
UsersCreate(in) ==
  /\ resp = NoResp
  /\ \E m \in Methods :
       /\ Route(m, "/users") = "usersCreate"
       /\ \E h \in HeadersOf(in), b \in in.createBodies :
            StartCreate(in, m, "/users", h, b)
  /\ UNCHANGED <<users, hashFrom, clock, ticks, held>>

\* The insert of a validated document, and the callback of User.create:
\* the unique indexes refuse a second username or email
Insert(in) ==
  /\ resp = NoResp
  /\ \E s \in in.slots, dbErr \in BOOLEAN :
       LET p == pending[s]
           d == Stored(p.doc)
           ok == ~dbErr /\ ~DuplicateKey(d, users)
           reply == IF ~ok THEN Send(400, JError("MongoError", {}))
                    ELSE IF p.handler = "register"
                    THEN Send(200, JToken(jwtSign(d._id, d.username, Secret, clock)))
                    ELSE Send(201, JDoc(d))
       IN  /\ Busy(s)
           /\ dbErr \in DbErrs(in, p.handler)
           /\ resp' = [Exchange(p.handler, p.method, p.path, p.hdr, 0, p.body, dbErr,
                                TRUE, TRUE, <<reply>>, FALSE)
                         EXCEPT !.at = p.at, !.id = p.doc._id]
           /\ users' = IF ok THEN users \cup {d} ELSE users
           /\ hashFrom' = IF ok THEN [hashFrom EXCEPT ![d._id] = Origin(p.doc)]
                          ELSE hashFrom
           /\ pending' = [pending EXCEPT ![s] = NoPending]
  /\ UNCHANGED <<nextId, clock, ticks, held>>

-----------------------------------------------------------------------------
(* controllers/authentications.js: login *)

\* POST /login.  On a lookup error the handler calls res.send(500) and then
\* .json(err) on the response already sent.  Where that second send throws
\* (rethrow), the exception leaves the callback; where it does not, the
\* handler goes on with user undefined and sends the 401 as well.  With no
\* password in the body, bcrypt.compareSync throws on its missing argument.
LoginReply(method, body, dbErr, rethrow) ==
  LET found == {u \in users : u.email = Get(body, "email")}
      password == Get(body, "password")
      X(sends, thrown) ==
        Exchange("login", method, "/login", NoHeader, 0, body, dbErr, TRUE, TRUE,
                 sends, thrown)
      invalid == Send(401, JMessage("Invalid credentials"))
      sent500 == Send(500, JText("Internal Server Error"))
  IN  IF dbErr
      THEN IF rethrow THEN X(<<sent500>>, TRUE)
           ELSE X(<<sent500, Send(500, JError("MongoError", {})), invalid>>, FALSE)
      ELSE IF found = {} THEN X(<<invalid>>, FALSE)
      ELSE LET user == CHOOSE u \in found : TRUE
           IN  IF password = Undefined THEN X(<<>>, TRUE)
               ELSE IF ~validatePassword(user, password) THEN X(<<invalid>>, FALSE)
               ELSE X(<<Send(200, JToken(jwtSign(user._id, user.username,
                                                 Secret, clock)))>>, FALSE)

Login(in) ==
  /\ resp = NoResp
  /\ \E m \in Methods :
       /\ Route(m, "/login") = "login"
       /\ \E b \in in.loginBodies, dbErr \in DbErrs(in, "login") :
            \E rethrow \in (IF dbErr THEN BOOLEAN ELSE {TRUE}) :
              resp' = LoginReply(m, b, dbErr, rethrow)
  /\ UNCHANGED <<users, hashFrom, nextId, clock, ticks, pending, held>>

-----------------------------------------------------------------------------
(* controllers/users.js *)

\* GET /users
UsersIndex(in) ==
  /\ resp = NoResp
  /\ \E m \in Methods :
       /\ Route(m, "/users") = "usersIndex"
       /\ \E hdr \in HeadersOf(in), dbErr \in DbErrs(in, "usersIndex") :
            resp' =
              IF ~Reaches("/users", hdr) THEN Unauthorized(m, "/users", hdr, 0, <<>>)
              ELSE Exchange("usersIndex", m, "/users", hdr, 0, <<>>, dbErr, TRUE, TRUE,
                            <<IF dbErr THEN Send(500, JError("MongoError", {}))
                              ELSE Send(200, JDocs(users))>>, FALSE)
  /\ UNCHANGED <<users, hashFrom, nextId, clock, ticks, pending, held>>

\* GET /users/:id
UsersShow(in) ==
  /\ resp = NoResp
  /\ \E m \in Methods :
       /\ Route(m, "/users/:id") = "usersShow"
       /\ \E hdr \in HeadersOf(in), id \in Ids, dbErr \in DbErrs(in, "usersShow") :
            LET found == {u \in users : u._id = id}
            IN  resp' =
                  IF ~Reaches("/users/:id", hdr)
                  THEN Unauthorized(m, "/users/:id", hdr, id, <<>>)
                  ELSE Exchange("usersShow", m, "/users/:id", hdr, id, <<>>, dbErr,
                         TRUE, TRUE,
                         <<IF dbErr THEN Send(500, JError("MongoError", {}))
                           ELSE IF found = {}
                           THEN Send(404, JMessage("Could not find a user with that id"))
                           ELSE Send(200, JDoc(CHOOSE u \in found : TRUE))>>, FALSE)
  /\ UNCHANGED <<users, hashFrom, nextId, clock, ticks, pending, held>>

\* The update document of findByIdAndUpdate: the body's keys that are paths
\* of the schema; virtuals and unknown keys are dropped, no setter runs
UpdatePaths(body) == {k \in {"username", "email", "passwordHash"} : HasKey(body, k)}

\* runValidators: the validators of the paths being set, run without a
\* document (this.isNew is undefined)
UpdateErrors(body) ==
  {k \in UpdatePaths(body) : Falsy(Get(body, k))}
    \cup (IF "passwordHash" \in UpdatePaths(body)
          THEN PasswordErrors(NewDoc(0), FALSE) ELSE {})

\* $set of the update paths on a stored document
ApplyUpdate(u, body) ==
  [k \in DOMAIN u |-> IF k \in UpdatePaths(body) THEN Get(body, k) ELSE u[k]]

\* User.findByIdAndUpdate(id, body, { new: true, runValidators: true }, cb)
\* and the callback
Update(method, hdr, id, body, dbErr) ==
  LET found == {u \in users : u._id = id}
      errs == UpdateErrors(body)
      X(send) == Exchange("usersUpdate", method, "/users/:id", hdr, id, body, dbErr,
                          TRUE, TRUE, <<send>>, FALSE)
  IN  IF ~Reaches("/users/:id", hdr)
      THEN /\ resp' = Unauthorized(method, "/users/:id", hdr, id, body)
           /\ UNCHANGED <<users, hashFrom>>
      ELSE IF errs # {}
      THEN /\ resp' = X(Send(400, JError("ValidationError", errs)))
           /\ UNCHANGED <<users, hashFrom>>
      ELSE IF dbErr
      THEN /\ resp' = X(Send(400, JError("MongoError", {})))
           /\ UNCHANGED <<users, hashFrom>>
      ELSE IF found = {}
      THEN /\ resp' = X(Send(200, JNull))
           /\ UNCHANGED <<users, hashFrom>>
      ELSE LET old == CHOOSE u \in found : TRUE
               new == ApplyUpdate(old, body)
           IN  IF DuplicateKey(new, users)
               THEN /\ resp' = X(Send(400, JError("MongoError", {})))
                    /\ UNCHANGED <<users, hashFrom>>
               ELSE /\ resp' = X(Send(200, JDoc(new)))
                    /\ users' = (users \ {old}) \cup {new}
                    /\ hashFrom' =
                         IF "passwordHash" \in UpdatePaths(body)
                         THEN [hashFrom EXCEPT ![id] =
                                 [how |-> "body", password |-> Undefined,
                                  confirmation |-> Undefined]]
                         ELSE hashFrom

\* PUT, PATCH /users/:id
UsersUpdate(in) ==
  /\ resp = NoResp
  /\ \E m \in Methods :
       /\ Route(m, "/users/:id") = "usersUpdate"
       /\ \E hdr \in HeadersOf(in), id \in Ids, b \in in.updateBodies,
             dbErr \in DbErrs(in, "usersUpdate") : Update(m, hdr, id, b, dbErr)
  /\ UNCHANGED <<nextId, clock, ticks, pending, held>>

\* DELETE /users/:id
UsersDelete(in) ==
  /\ resp = NoResp
  /\ \E m \in Methods :
       /\ Route(m, "/users/:id") = "usersDelete"
       /\ \E hdr \in HeadersOf(in), id \in Ids, dbErr \in DbErrs(in, "usersDelete") :
            IF ~Reaches("/users/:id", hdr)
            THEN /\ resp' = Unauthorized(m, "/users/:id", hdr, id, <<>>)
                 /\ UNCHANGED <<users, hashFrom>>
            ELSE /\ resp' = Exchange("usersDelete", m, "/users/:id", hdr, id, <<>>,
                                     dbErr, TRUE, TRUE,
                                     <<IF dbErr THEN Send(500, JError("MongoError", {}))
                                       ELSE Send(204, JEmpty)>>, FALSE)
                 /\ users' = IF dbErr THEN users ELSE {u \in users : u._id # id}
                 /\ hashFrom' = IF dbErr THEN hashFrom
                                ELSE [hashFrom EXCEPT ![id] = NoOrigin]
  /\ UNCHANGED <<nextId, clock, ticks, pending, held>>

\* A method the router binds no handler to: on a secured path secureRoute
\* still runs first; then the request falls through to the 404 page
NoHandler(in) ==
  /\ resp = NoResp
  /\ \E m \in Methods, path \in {"/users", "/users/:id", "/register", "/login"} :
       /\ Route(m, path) = "none"
       /\ \E hdr \in (IF Secured(path) THEN HeadersOf(in) ELSE {NoHeader}) :
            resp' =
              IF ~Reaches(path, hdr) THEN Unauthorized(m, path, hdr, 0, <<>>)
              ELSE Exchange("none", m, path, hdr, 0, <<>>, FALSE, TRUE, FALSE,
                       <<Send(404, JText("Cannot " \o m \o " " \o path))>>, FALSE)
  /\ UNCHANGED <<users, hashFrom, nextId, clock, ticks, pending, held>>

-----------------------------------------------------------------------------
(* The explorations.  Each runs the handlers over one part of the requests. *)

BodiesOf(U, E, P, C, H) ==
  {MkBody(u, e, p, c, h, o) : u \in U, e \in E, p \in P, c \in C, h \in H,
                              o \in BOOLEAN}

\* Identities: every username and email, present or not, under one valid
\* password; creations race for the unique indexes
InKeys ==
  [slots |-> Slots,
   createBodies |-> BodiesOf(Usernames \cup {Undefined}, Emails \cup {Undefined},
                             {"p1"}, {"p1"}, {Undefined}),
   updateBodies |-> BodiesOf(Usernames \cup {Undefined}, Emails \cup {Undefined},
                             {Undefined}, {Undefined}, {Undefined}),
   loginBodies |-> {},
   headers |-> "plain",
   failing |-> {"register", "usersCreate", "usersUpdate", "usersDelete"},
   deltas |-> {}]

NextKeys ==
  \/ Register(InKeys)
  \/ UsersCreate(InKeys)
  \/ Insert(InKeys)
  \/ UsersUpdate(InKeys)
  \/ UsersDelete(InKeys)
  \/ Collect

SpecKeys == Init /\ [][NextKeys]_vars

\* Passwords: every password, confirmation and passwordHash a body may
\* carry, for one identity
InPasswords ==
  [slots |-> {1},
   createBodies |->
     BodiesOf({"u1"}, {"e1"}, Passwords \cup {Undefined, ""},
              Passwords \cup {Undefined}, HashInputs \cup {Undefined}),
   updateBodies |->
     BodiesOf({Undefined}, {Undefined}, {"p2", Undefined},
              Passwords \cup {Undefined}, HashInputs \cup {Undefined}),
   loginBodies |->
     {Field("email", e) \o Field("password", p) :
        e \in Emails, p \in Passwords \cup {Undefined}},
   headers |-> "plain",
   failing |-> {"login", "usersIndex", "usersShow", "usersDelete"},
   deltas |-> {}]

NextPasswords ==
  \/ Register(InPasswords)
  \/ UsersCreate(InPasswords)
  \/ Insert(InPasswords)
  \/ Login(InPasswords)
  \/ UsersIndex(InPasswords)
  \/ UsersShow(InPasswords)
  \/ UsersUpdate(InPasswords)
  \/ UsersDelete(InPasswords)
  \/ Collect

SpecPasswords == Init /\ [][NextPasswords]_vars

\* Tokens: every header, on every route and method, as time passes, for one
\* identity
InTokens ==
  [slots |-> {1},
   createBodies |-> BodiesOf({"u1"}, {"e1"}, {"p1"}, {"p1"}, {Undefined}),
   updateBodies |-> BodiesOf({"u1"}, {Undefined}, {Undefined}, {Undefined},
                             {Undefined}),
   loginBodies |-> {Field("email", "e1") \o Field("password", "p1")},
   headers |-> "all",
   failing |-> {},
   deltas |-> Deltas]

NextTokens ==
  \/ Register(InTokens)
  \/ UsersCreate(InTokens)
  \/ Insert(InTokens)
  \/ Login(InTokens)
  \/ UsersIndex(InTokens)
  \/ UsersShow(InTokens)
  \/ UsersUpdate(InTokens)
  \/ UsersDelete(InTokens)
  \/ NoHandler(InTokens)
  \/ Tick(InTokens)
  \/ Collect

SpecTokens == Init /\ [][NextTokens]_vars

-----------------------------------------------------------------------------
(* Properties *)

Done == resp # NoResp

\* What the client receives: the first send
Reply == resp.sends[1]

Rejected401 == resp.sends = <<Send(401, JMessage("Unauthorized"))>>

\* The request's Authorization header carries, bare or after "Bearer ", a
\* token signed with the secret that had not expired when it was received
HeaderVerifies ==
  /\ resp.hdr.present
  /\ resp.hdr.prefix \in {"Bearer ", ""}
  /\ resp.hdr.cred.sig = Sign(Secret, resp.hdr.cred._id, resp.hdr.cred.username,
                              resp.hdr.cred.iat, resp.hdr.cred.exp)
  /\ resp.at < resp.hdr.cred.exp

\* C1: on /users and /users/:id, under any method, a handler runs only for a
\* request whose Authorization header carried a token that verified; a
\* request with no header or with a token that does not verify is answered
\* 401 "Unauthorized", no handler runs and the collection is unchanged.
C1_HandlerOnlyBehindGate ==
  (Done /\ Secured(resp.path)) =>
     /\ resp.ran => HeaderVerifies
     /\ ~HeaderVerifies =>
          /\ Rejected401
          /\ ~resp.ran
          /\ ~resp.thrown
          /\ users = resp.before

\* A request whose token has a good signature and has expired is turned away
C1_Witness ==
  /\ Done /\ Secured(resp.path) /\ resp.handler = "usersDelete"
  /\ held # NoToken
  /\ resp.hdr.present /\ resp.hdr.cred = held
  /\ resp.at >= held.exp
  /\ Rejected401 /\ users # {}

\* C6: a token issued at time T expires at T + 86400; presented as
\* "Bearer <token>" it is accepted at every time t with T <= t < T + 86400
\* and rejected from T + 86400 on; a token whose signature is not the
\* secret's is rejected whenever it is presented.
C6_TokenLifetime ==
  Done =>
     /\ (resp.sends # <<>> /\ Reply.body.type = "token") =>
          /\ Reply.body.token.iat = resp.sentAt
          /\ Reply.body.token.exp = resp.sentAt + 86400
     /\ held # NoToken => (held.exp = held.iat + 86400 /\ held.iat <= clock)
     /\ (Secured(resp.path) /\ resp.hdr.present /\ resp.hdr.prefix = "Bearer "
           /\ resp.hdr.cred = held) =>
          (Rejected401 <=> resp.at >= held.iat + 86400)
     /\ (Secured(resp.path) /\ resp.hdr.present
           /\ resp.hdr.cred.sig # Sign(Secret, resp.hdr.cred._id,
                                       resp.hdr.cred.username, resp.hdr.cred.iat,
                                       resp.hdr.cred.exp)) =>
          Rejected401

\* The token is presented exactly 86400 seconds after it was issued, and is
\* rejected
C6_Witness ==
  /\ Done /\ Secured(resp.path)
  /\ resp.hdr.present /\ resp.hdr.prefix = "Bearer " /\ resp.hdr.cred = held
  /\ held.iat > 0
  /\ resp.at = held.iat + 86400
  /\ Rejected401

\* The body names a username and an email and carries a password with an
\* equal confirmation
ValidCandidate(body) ==
  /\ ~Falsy(Get(body, "username"))
  /\ ~Falsy(Get(body, "email"))
  /\ ~Falsy(Get(body, "password"))
  /\ Get(body, "password") = Get(body, "passwordConfirmation")

\* A stored identity has the body's username or its email
Taken(body, coll) ==
  \E u \in coll : \/ u.username = Get(body, "username")
                  \/ u.email = Get(body, "email")

\* C4: no two stored identities share a username or an email, whatever
\* registrations, creations and updates ran and however they interleaved;
\* a register or create whose username or email belongs to a stored
\* identity is answered 400 and stores nothing.
C4_UniqueKeys ==
  /\ \A a, b \in users :
       a # b => (a._id # b._id /\ a.username # b.username /\ a.email # b.email)
  /\ (Done /\ resp.handler \in {"register", "usersCreate"} /\ resp.ran
        /\ Taken(resp.body, resp.before)) =>
       /\ Len(resp.sends) = 1
       /\ Reply.status = 400
       /\ users = resp.before

\* Two creations raced: a registration that had passed validation is
\* refused at its insert for the email of an identity built after it
C4_Witness ==
  /\ Done /\ resp.handler = "register" /\ ~resp.dbErr
  /\ ValidCandidate(resp.body)
  /\ \E u \in resp.before : /\ u.email = Get(resp.body, "email")
                            /\ u.username # Get(resp.body, "username")
                            /\ u._id > resp.id
  /\ Reply.status = 400

C3_BadPasswordRejected ==
  /\ (Done /\ resp.handler = "register"
        /\ (\/ Falsy(Get(resp.body, "password"))
            \/ Get(resp.body, "password") # Get(resp.body, "passwordConfirmation"))) =>
       /\ Len(resp.sends) = 1
       /\ Reply.status = 400
       /\ Reply.body.type = "error"
       /\ users = resp.before
  /\ \A s \in Slots :
       Busy(s) =>
         /\ ~Falsy(Get(pending[s].body, "password"))
         /\ Get(pending[s].body, "password") =
              Get(pending[s].body, "passwordConfirmation")

\* A registration whose confirmation differs is refused, a passwordHash in
\* its body notwithstanding
C3_Witness ==
  /\ Done /\ resp.handler = "register"
  /\ Get(resp.body, "password") = "p1"
  /\ Get(resp.body, "passwordConfirmation") = "p2"
  /\ HasKey(resp.body, "passwordHash")
  /\ Reply.status = 400

\* C8: no response of any handler carries a passwordHash key in a serialized
\* identity, or the passwordHash value of a stored identity anywhere.
C8_NoDigestInResponses ==
  Done =>
    \A i \in 1..Len(resp.sends) :
      LET b == resp.sends[i].body
          digests == {u.passwordHash : u \in users \cup resp.before}
      IN  /\ \A j \in b.docs :
                /\ "passwordHash" \notin DOMAIN j
                /\ \A k \in (DOMAIN j) \ {"_id", "__v"} : j[k] \notin digests
          /\ b.message \notin digests
          /\ b.token.username \notin digests
          /\ b.errors \cap digests = {}

\* An update that set a passwordHash answers with the identity
C8_Witness ==
  /\ Done /\ resp.handler = "usersUpdate" /\ Reply.status = 200
  /\ HasKey(resp.body, "passwordHash")
  /\ Reply.body.docs # {}
  /\ users # resp.before

\* C2: a login whose lookup succeeds is answered 401 "Invalid credentials",
\* with no token, alike when no identity has the email and when the
\* password does not match the identity's; a matching pair is answered 200
\* with a token.
C2_LoginFailuresAlike ==
  (Done /\ resp.handler = "login" /\ ~resp.dbErr) =>
     IF \E u \in resp.before :
          /\ u.email = Get(resp.body, "email")
          /\ u.passwordHash = "$2a$08$" \o Get(resp.body, "password")
     THEN /\ Len(resp.sends) = 1
          /\ Reply.status = 200
          /\ Reply.body.type = "token"
     ELSE /\ resp.sends = <<Send(401, JMessage("Invalid credentials"))>>
          /\ ~resp.thrown

\* C5: the passwordHash of every stored identity was written by the
\* password setter, from a raw password that came with an equal
\* confirmation; none is a value a request body gave.
C5_DigestOnlyDerived ==
  \A u \in users :
    /\ hashFrom[u._id].how = "virtual"
    /\ hashFrom[u._id].password = hashFrom[u._id].confirmation
    /\ u.passwordHash = "$2a$08$" \o hashFrom[u._id].password

\* C9: every register and login request ends with exactly one response and
\* no exception leaves the handler; a login whose lookup fails is answered
\* 500, and sends no 401 and no token.
C9_OneResponse ==
  (Done /\ resp.handler \in {"register", "login"}) =>
     /\ Len(resp.sends) = 1
     /\ ~resp.thrown
     /\ (resp.handler = "login" /\ resp.dbErr) =>
          /\ Reply.status = 500
          /\ \A i \in 1..Len(resp.sends) :
               /\ resp.sends[i].status # 401
               /\ resp.sends[i].body.type # "token"

\* C10: an update of a stored identity whose body carries a password is
\* refused with 400, the identity unchanged, when the confirmation differs;
\* when it is equal, the identity's passwordHash becomes the digest of the
\* new password.
C10_UpdateRevalidatesPassword ==
  (Done /\ resp.handler = "usersUpdate" /\ resp.ran /\ ~resp.dbErr
     /\ HasKey(resp.body, "password")
     /\ \E u \in resp.before : u._id = resp.id) =>
     IF Get(resp.body, "password") # Get(resp.body, "passwordConfirmation")
     THEN Reply.status = 400 /\ users = resp.before
     ELSE \E u \in users :
            /\ u._id = resp.id
            /\ u.passwordHash = "$2a$08$" \o Get(resp.body, "password")

====
